---- MODULE Spec2Model ----
(***************************************************************************)
(* Model of src/src/main.rs: the G1 humongous-allocation log scanner.      *)
(*                                                                         *)
(* Text is modelled as a sequence of tokens.  Every literal the program    *)
(* searches for is one token, every decimal digit is one token, and "x"    *)
(* stands for any other text that contains none of the literals:           *)
(*   "AR"   = "allocation request: "                                       *)
(*   "BY"   = " bytes,"                                                     *)
(*   "SRC"  = "source: concurrent humongous allocation]"                   *)
(*   "PASP" = "PrintAdaptiveSizePolicy"                                    *)
(*   "XX"   = " -XX:"                                                      *)
(*   "G1"   = "G1HeapRegionSize"                                           *)
(*   "="    = "="          "+" = "+"        "-" = "-"                      *)
(*   "BAD"  = a byte sequence that is not valid UTF-8                      *)
(*                                                                         *)
(* Unsigned machine integers are modelled with their width: a u64 is four  *)
(* 16-bit limbs, a u32 two, most significant limb first, so that the       *)
(* overflow check of str::parse is the real one.                           *)
(***************************************************************************)
EXTENDS Naturals, Sequences, FiniteSets, Bags, TLC

\* ------------------------------------------------------------------ bounds
\* number of files on the command line
MaxFiles == 2
\* length, in tokens, of the lines the matcher is run on exhaustively
MaxLineLen == 5

\* ------------------------------------------------------- machine integers
Base == 2 ^ 16

RECURSIVE Zero(_)
Zero(w) == IF w = 0 THEN <<>> ELSE <<0>> \o Zero(w - 1)

\* a number below 2^31 as a u64
U64(n) == <<0, 0, n \div Base, n % Base>>

U64Max == <<Base - 1, Base - 1, Base - 1, Base - 1>>

\* a < b, a and b of the same width
Less(a, b) ==
    \E i \in 1..Len(a) : a[i] < b[i] /\ \A j \in 1..(i - 1) : a[j] = b[j]

\* item matches the inclusive range pattern lo..=hi
InRange(item, lo, hi) == ~Less(item, lo) /\ ~Less(hi, item)

Digits == <<"0", "1", "2", "3", "4", "5", "6", "7", "8", "9">>

IsDigit(c) == \E n \in 1..10 : Digits[n] = c

DigitVal(c) == (CHOOSE n \in 1..10 : Digits[n] = c) - 1

\* v * 10 + c, limb by limb from the least significant one: the carry out
\* of the most significant limb, followed by the limbs of the result
RECURSIVE MulAddLimbs(_, _)
MulAddLimbs(v, c) ==
    IF v = <<>> THEN <<c>>
    ELSE LET low == MulAddLimbs(Tail(v), c)
             t == Head(v) * 10 + Head(low)
         IN  <<t \div Base, t % Base>> \o Tail(low)

\* checked_mul(10) then checked_add(d): ok is FALSE when the result
\* does not fit the width of v
MulAdd(v, d) ==
    LET r == MulAddLimbs(v, d)
    IN  [ok |-> Head(r) = 0, val |-> Tail(r)]

RECURSIVE ParseDigits(_, _)
ParseDigits(s, acc) ==
    IF s = <<>> THEN [ok |-> TRUE, val |-> acc]
    ELSE IF ~IsDigit(Head(s)) THEN [ok |-> FALSE, val |-> acc]
    ELSE LET r == MulAdd(acc, DigitVal(Head(s)))
         IN  IF r.ok THEN ParseDigits(Tail(s), r.val)
             ELSE [ok |-> FALSE, val |-> acc]

\* str::parse::<uN>() with N = 16 * w: empty text, a lone sign, a minus
\* sign, a non-digit and a value that does not fit are all errors
ParseUInt(s, w) ==
    IF s = <<>> \/ s = <<"+">> \/ s = <<"-">>
    THEN [ok |-> FALSE, val |-> Zero(w)]
    ELSE IF Head(s) = "+" THEN ParseDigits(Tail(s), Zero(w))
    ELSE ParseDigits(s, Zero(w))

\* v / d for a u32 v and a small d (long division, limb by limb)
DivU32(v, d) ==
    <<v[1] \div d, ((v[1] % d) * Base + v[2]) \div d>>

\* ------------------------------------------------------------------- text
Contains(s, tok) == \E i \in 1..Len(s) : s[i] = tok

\* position of the first occurrence of tok in s, 0 when there is none
FirstIdx(s, tok) ==
    IF Contains(s, tok)
    THEN CHOOSE i \in 1..Len(s) : s[i] = tok /\ \A j \in 1..(i - 1) : s[j] # tok
    ELSE 0

Before(s, i) == SubSeq(s, 1, i - 1)

After(s, i) == SubSeq(s, i + 1, Len(s))

EndsWith(s, tok) == s # <<>> /\ s[Len(s)] = tok

\* str::split: the pieces of s between the occurrences of tok
RECURSIVE Split(_, _)
Split(s, tok) ==
    LET i == FirstIdx(s, tok)
    IN  IF i = 0 THEN <<s>> ELSE <<Before(s, i)>> \o Split(After(s, i), tok)

\* --------------------------------------------------- the line matcher
None == [kind |-> "None", val |-> Zero(4)]

Some(v) == [kind |-> "Some", val |-> v]

Panic == [kind |-> "Panic", val |-> Zero(4)]

parse_humongous_object_allocation(line) ==
    LET i == FirstIdx(line, "AR")
    IN  IF i = 0 THEN None
        ELSE LET rest == After(line, i)
             IN  IF ~EndsWith(rest, "SRC") THEN None
                 ELSE LET j == FirstIdx(rest, "BY")
                      IN  IF j = 0 THEN None
                          ELSE LET p == ParseUInt(Before(rest, j), 4)
                               IN  IF p.ok THEN Some(p.val) ELSE Panic

\* ---------------------------------------------- the region size extractor
\* a file on disk: whether File::open succeeds, and its lines
NoFile == [openable |-> FALSE, lines |-> <<>>]

\* BufReader::lines() yields Err for a line that is not valid UTF-8
IsUtf8(l) == ~Contains(l, "BAD")

Region(k, n) == [kind |-> k, mb |-> n]

NoRegion == Region("Unset", 0)

\* the segments of the flags line that name the region size, each split
\* at its first "="; ok is FALSE where the code's unwrap or index panics
region_size(third_line) ==
    LET segs == SelectSeq(Split(third_line, "XX"),
                          LAMBDA x : Contains(x, "G1"))
    IN  IF segs = <<>> \/ \E k \in 1..Len(segs) : ~Contains(segs[k], "=")
        THEN [ok |-> FALSE, val |-> Zero(2)]
        ELSE ParseUInt(After(segs[1], FirstIdx(segs[1], "=")), 2)

\* extract_region_size once the file is open: lines().nth(3) and on
nth_3(lines) ==
    IF Len(lines) < 4 THEN Region("TooShortLog", 0)
    ELSE LET third_line == lines[4]
         IN  IF ~IsUtf8(third_line) THEN Region("PanicUnwrap", 0)
             ELSE IF ~Contains(third_line, "PASP")
             THEN Region("MissingDiagnosticsFlag", 0)
             ELSE LET p == region_size(third_line)
                  IN  IF ~p.ok THEN Region("PanicUnwrap", 0)
                      ELSE LET q == DivU32(DivU32(p.val, 1024), 1024)
                           IN  Region("Ok", q[1] * Base + q[2])

\* a failed open is reported as an error of the file, not as a panic
extract_region_size_open_err(f) ==
    IF ~f.openable THEN Region("TooShortLog", 0) ELSE nth_3(f.lines)

extract_region_size(f) ==
    IF ~f.openable THEN Region("PanicOpen", 0) ELSE nth_3(f.lines)

IsPanic(r) == r.kind \in {"PanicOpen", "PanicUnwrap"}

\* only the short log counts as an error
is_err_short_only(r) == r.kind = "TooShortLog"

\* file_region_size.is_err()
is_err(r) == r.kind \in {"TooShortLog", "MissingDiagnosticsFlag"}

\* --------------------------------------------------- the size classifier
\* the arm of the match on item that is taken: 1..6 is the index of the
\* bucket it increments (1 = 2MB .. 5 = 32MB, 6 = Overflow), 0 the
\* catch-all arm that prints the warning
classify_u32_overflow(item) ==
    IF InRange(item, U64(524289), U64(1048576)) THEN 1
    ELSE IF InRange(item, U64(1048577), U64(2097152)) THEN 2
    ELSE IF InRange(item, U64(2097153), U64(4194304)) THEN 3
    ELSE IF InRange(item, U64(4194305), U64(8388608)) THEN 4
    ELSE IF InRange(item, U64(8388609), U64(16777216)) THEN 5
    ELSE IF InRange(item, U64(16777217), <<0, 0, Base - 1, Base - 1>>) THEN 6
    ELSE 0

Classify(item) ==
    IF InRange(item, U64(524289), U64(1048576)) THEN 1
    ELSE IF InRange(item, U64(1048577), U64(2097152)) THEN 2
    ELSE IF InRange(item, U64(2097153), U64(4194304)) THEN 3
    ELSE IF InRange(item, U64(4194305), U64(8388608)) THEN 4
    ELSE IF InRange(item, U64(8388609), U64(16777216)) THEN 5
    ELSE IF InRange(item, U64(16777217), U64Max) THEN 6
    ELSE 0

\* both arms bump the bucket after the one that matched as well
increment_two(a, arm) ==
    [i \in 1..6 |-> IF i = arm \/ i = arm + 1 THEN a[i] + 1 ELSE a[i]]

\* region_size_array[arm - 1].num_allocations += 1
num_allocations_increment(a, arm) == [a EXCEPT ![arm] = @ + 1]

\* ------------------------------------------ the order-statistics accumulator
\* histogram::Histogram, kept as the multiset of the samples it was given
HistogramNew == EmptyBag

HistogramIncrement(h, v) == h (+) SetToBag({v})

\* minimum(), maximum() and percentile() answer Err("no data") when empty
HistogramHasData(h) == h # EmptyBag

\* the call is left out
increment_dropped(h, item) == h

\* allocs_histogram.increment(item), its Result ignored
increment(h, item) == HistogramIncrement(h, item)

\* ------------------------------------------------------------- the inputs
RECURSIVE ToDigits(_)
ToDigits(n) ==
    IF n < 10 THEN <<Digits[n + 1]>>
    ELSE ToDigits(n \div 10) \o <<Digits[(n % 10) + 1]>>

\* 2^64 - 1 and 2^64 in decimal
U64MaxDigits ==
    <<"1", "8", "4", "4", "6", "7", "4", "4", "0", "7",
      "3", "7", "0", "9", "5", "5", "1", "6", "1", "5">>

U64OverDigits ==
    <<"1", "8", "4", "4", "6", "7", "4", "4", "0", "7",
      "3", "7", "0", "9", "5", "5", "1", "6", "1", "6">>

\* the ends of every range of the match, and the values around the lowest
SampleSizes ==
    {0, 524288, 524289, 524290, 1048576, 1048577, 2097152, 2097153,
     4194304, 4194305, 8388608, 8388609, 16777216, 16777217}

AllocLine(d) == <<"x", "AR">> \o d \o <<"BY", "x", "SRC">>

Noise == <<"x">>

BodyLines ==
    {AllocLine(ToDigits(n)) : n \in SampleSizes}
      \cup {AllocLine(U64MaxDigits), AllocLine(U64OverDigits), Noise,
            <<"x", "AR", "x", "BY", "x", "SRC">>,
            <<"x", "AR", "6", "0", "0", "0", "0", "0", "BY", "SRC", "x">>,
            <<"AR", "6", "0", "0", "0", "0", "0", "SRC">>,
            <<"BAD">>}

RECURSIVE SeqsUpTo(_, _)
SeqsUpTo(S, n) ==
    IF n = 0 THEN {<<>>}
    ELSE LET shorter == SeqsUpTo(S, n - 1)
         IN  shorter \cup {Append(q, e) : q \in shorter, e \in S}

\* what follows the four header lines: nothing, one line, or one of a few
\* longer logs
Bodies ==
    {<<>>}
      \cup {<<l>> : l \in BodyLines}
      \cup {<<AllocLine(ToDigits(600000)), Noise, AllocLine(ToDigits(3000000)),
              AllocLine(ToDigits(20000000))>>,
            <<AllocLine(ToDigits(524288)), AllocLine(ToDigits(524289))>>,
            <<AllocLine(ToDigits(600000)), <<"x", "AR", "x", "BY", "x", "SRC">>>>}

Flags(d) == <<"x", "XX", "G1", "=">> \o d \o <<"XX", "+", "PASP">>

\* the first four lines of a log whose region size can be read
GoodHeader == <<Noise, Noise, Noise, Flags(ToDigits(4194304))>>

AllocHeader ==
    <<AllocLine(ToDigits(600000)), Noise, Noise, Flags(ToDigits(33554432))>>

\* and of logs where it cannot, or is not what the first three lines say
OddHeaders ==
    {AllocHeader,
     <<Flags(ToDigits(4194304)), Flags(ToDigits(4194304)),
       Flags(ToDigits(4194304)), Noise>>,
     <<Noise, Noise, Noise, <<"x", "XX", "G1", "=", "4", "1", "9", "4", "3", "0", "4">>>>,
     <<Noise, Noise, Noise, <<"x", "XX", "+", "PASP">>>>,
     <<Noise, Noise, Noise, <<"x", "XX", "G1", "XX", "+", "PASP">>>>,
     <<Noise, Noise, Noise, <<"x", "XX", "G1", "=", "x", "XX", "+", "PASP">>>>,
     <<Noise, Noise, Noise, Flags(<<"4", "2", "9", "4", "9", "6", "7", "2", "9", "5">>)>>,
     <<Noise, Noise, Noise, Flags(<<"4", "2", "9", "4", "9", "6", "7", "2", "9", "6">>)>>,
     <<Noise, Noise, Noise, Flags(ToDigits(524288))>>}

OddBodies == {<<>>, <<AllocLine(ToDigits(3000000))>>}

\* logs of fewer than four lines
ShortLogs == SeqsUpTo({AllocLine(ToDigits(600000)), Noise}, 3)

FileSamples ==
    {NoFile}
      \cup {[openable |-> TRUE, lines |-> b] : b \in ShortLogs}
      \cup {[openable |-> TRUE, lines |-> GoodHeader \o b] : b \in Bodies}
      \cup {[openable |-> TRUE, lines |-> h \o b] : h \in OddHeaders, b \in OddBodies}

\* the lines the matcher is run on by itself
Alphabet == {"AR", "BY", "SRC", "0", "7", "x"}

ParseInputs == SeqsUpTo(Alphabet, MaxLineLen) \cup BodyLines

\* -------------------------------------------------------------- the state
VARIABLES
    nfiles,             \* args.files.len()
    idx,                \* how many files main's loop has taken
    pc,                 \* "loop", "extracted", "items", "done", "panicked"
    file,               \* the file gather_humongous_object_allocations is on
    file_region_size,   \* the result of extract_region_size for it
    allocations,        \* what is left of the vector the for loop walks
    allocs_histogram,
    region_size_array,  \* num_allocations of the six buckets
    stdout,
    stderr,
    extracted,          \* history: how many sizes the scans have collected
    line,               \* the matcher's input and result, for SpecParse
    parsed

vars ==
    <<nfiles, idx, pc, file, file_region_size, allocations, allocs_histogram,
      region_size_array, stdout, stderr, extracted, line, parsed>>

Pending == [kind |-> "Pending", val |-> Zero(4)]

Sum(a) == a[1] + a[2] + a[3] + a[4] + a[5] + a[6]

Init ==
    /\ nfiles \in 1..MaxFiles
    /\ idx = 0
    /\ pc = "loop"
    /\ file = NoFile
    /\ file_region_size = NoRegion
    /\ allocations = <<>>
    /\ allocs_histogram = HistogramNew
    /\ region_size_array = <<0, 0, 0, 0, 0, 0>>
    /\ stdout = <<>>
    /\ stderr = <<>>
    /\ extracted = 0
    /\ line = <<>>
    /\ parsed = Pending

\* gather_humongous_object_allocations returns to main's loop
Return ==
    /\ pc' = "loop"
    /\ file' = NoFile
    /\ file_region_size' = NoRegion

\* main takes the next file; gather calls extract_region_size on it
ExtractRegionSize ==
    /\ pc = "loop"
    /\ idx < nfiles
    /\ \E f \in FileSamples :
         LET r == extract_region_size(f)
         IN  /\ file' = f
             /\ file_region_size' = r
             /\ pc' = IF IsPanic(r) THEN "panicked" ELSE "extracted"
             /\ stderr' = IF IsPanic(r) THEN Append(stderr, r.kind) ELSE stderr
    /\ idx' = idx + 1
    /\ UNCHANGED <<nfiles, allocations, allocs_histogram, region_size_array,
                   stdout, extracted, line, parsed>>

\* the lines that are valid UTF-8, each put through the matcher
RECURSIVE Matches(_)
Matches(ls) ==
    IF ls = <<>> THEN <<>>
    ELSE IF ~IsUtf8(Head(ls)) THEN Matches(Tail(ls))
    ELSE <<parse_humongous_object_allocation(Head(ls))>> \o Matches(Tail(ls))

\* the sizes of the lines that matched
RECURSIVE Found(_)
Found(m) ==
    IF m = <<>> THEN <<>>
    ELSE IF Head(m).kind = "Some" THEN <<Head(m).val>> \o Found(Tail(m))
    ELSE Found(Tail(m))

\* the error is printed and the file left, or the banner is printed and
\* the allocations of the file are collected
Scan ==
    /\ pc = "extracted"
    /\ IF is_err(file_region_size)
       THEN /\ stderr' = Append(stderr, file_region_size.kind)
            /\ Return
            /\ UNCHANGED <<stdout, allocations, extracted>>
       ELSE LET m == Matches(file.lines)
            IN  /\ stdout' = Append(stdout, [t |-> "Region Size", mb |-> file_region_size.mb])
                /\ IF \E i \in 1..Len(m) : m[i] = Panic
                   THEN /\ pc' = "panicked"
                        /\ stderr' = Append(stderr, "PanicUnwrap")
                        /\ UNCHANGED <<file, file_region_size, allocations, extracted>>
                   ELSE /\ stderr' = stderr
                        /\ allocations' = Found(m)
                        /\ extracted' = extracted + Len(Found(m))
                        /\ IF Found(m) = <<>>
                           THEN Return
                           ELSE /\ pc' = "items"
                                /\ UNCHANGED <<file, file_region_size>>
    /\ UNCHANGED <<nfiles, idx, allocs_histogram, region_size_array, line, parsed>>

\* one turn of the for loop over allocations
ClassifyItem ==
    /\ pc = "items"
    /\ LET item == Head(allocations)
           arm == Classify(item)
       IN  /\ allocs_histogram' = increment(allocs_histogram, item)
           /\ region_size_array' =
                IF arm = 0 THEN region_size_array
                ELSE num_allocations_increment(region_size_array, arm)
           /\ stderr' = IF arm = 0 THEN Append(stderr, "WARN") ELSE stderr
    /\ allocations' = Tail(allocations)
    /\ IF Tail(allocations) = <<>>
       THEN Return
       ELSE UNCHANGED <<pc, file, file_region_size>>
    /\ UNCHANGED <<nfiles, idx, stdout, extracted, line, parsed>>

\* main after the loop
Report ==
    /\ pc = "loop"
    /\ idx = nfiles
    /\ IF Sum(region_size_array) > 0
       THEN IF HistogramHasData(allocs_histogram)
            THEN /\ stdout' = stdout \o <<[t |-> "table", mb |-> 0],
                                          [t |-> "percentiles", mb |-> 0]>>
                 /\ pc' = "done"
                 /\ stderr' = stderr
            ELSE /\ stdout' = Append(stdout, [t |-> "table", mb |-> 0])
                 /\ pc' = "panicked"
                 /\ stderr' = Append(stderr, "PanicUnwrap")
       ELSE /\ stdout' = Append(stdout, [t |-> "No humongous allocations", mb |-> 0])
            /\ pc' = "done"
            /\ stderr' = stderr
    /\ UNCHANGED <<nfiles, idx, file, file_region_size, allocations,
                   allocs_histogram, region_size_array, extracted, line, parsed>>

Next == ExtractRegionSize \/ Scan \/ ClassifyItem \/ Report

Spec == Init /\ [][Next]_vars

\* ------------------------------------------- the matcher run by itself
InitParse ==
    /\ nfiles = 1
    /\ idx = 0
    /\ pc = "loop"
    /\ file = NoFile
    /\ file_region_size = NoRegion
    /\ allocations = <<>>
    /\ allocs_histogram = HistogramNew
    /\ region_size_array = <<0, 0, 0, 0, 0, 0>>
    /\ stdout = <<>>
    /\ stderr = <<>>
    /\ extracted = 0
    /\ line \in ParseInputs
    /\ parsed = Pending

ParseLine ==
    /\ parsed = Pending
    /\ parsed' = parse_humongous_object_allocation(line)
    /\ UNCHANGED <<nfiles, idx, pc, file, file_region_size, allocations,
                   allocs_histogram, region_size_array, stdout, stderr,
                   extracted, line>>

NextParse == ParseLine

SpecParse == InitParse /\ [][NextParse]_vars

\* ================================================================ claims
Last(q) == q[Len(q)]

Count(q, e) == Cardinality({i \in 1..Len(q) : q[i] = e})

Printed(t) == \E i \in 1..Len(stdout) : stdout[i].t = t

\* a <= b for two u64
AtMost(a, b) == a = b \/ Less(a, b)

\* the bucket the specification names for a size of at least 524290
BucketOf(B) ==
    IF AtMost(B, U64(1048576)) THEN 1
    ELSE IF AtMost(B, U64(2097152)) THEN 2
    ELSE IF AtMost(B, U64(4194304)) THEN 3
    ELSE IF AtMost(B, U64(8388608)) THEN 4
    ELSE IF AtMost(B, U64(16777216)) THEN 5
    ELSE 6

\* the for loop is about to take the size at the head of allocations
Taking == pc = "items" /\ allocations # <<>>

\* C1: a size of 524290 or more increments the one bucket whose range
\* holds it by one and leaves the other five as they are; everything above
\* 16777216 goes to Overflow, up to the largest u64.
C1_OneBucketPerSize ==
    [][(Taking /\ AtMost(U64(524290), Head(allocations)))
         => /\ region_size_array'[BucketOf(Head(allocations))]
                 = region_size_array[BucketOf(Head(allocations))] + 1
            /\ \A b \in 1..6 :
                 b # BucketOf(Head(allocations))
                   => region_size_array'[b] = region_size_array[b]]_vars

\* the largest u64 and the smallest size of the claim have both been counted
C1_Witness ==
    /\ region_size_array[6] >= 1
    /\ region_size_array[1] >= 1
    /\ BagIn(U64Max, allocs_histogram)
    /\ BagIn(U64(524290), allocs_histogram)

\* C2: a size of 524289 or less increments no bucket and is warned about.
C2_NoBucketAtOrBelow524289 ==
    [][(Taking /\ AtMost(Head(allocations), U64(524289)))
         => /\ region_size_array' = region_size_array
            /\ stderr' = Append(stderr, "WARN")]_vars

\* C3: a size that takes the warning arm is not added to the distribution:
\* the accumulator holds the same samples after it as before.  (Stated for
\* the sizes of one byte and more, so that a violation does not rest on
\* what the accumulator does with a sample of zero.)
C3_WarnedNotInDistribution ==
    [][(Taking /\ stderr' = Append(stderr, "WARN")
               /\ Head(allocations) # U64(0))
         => allocs_histogram' = allocs_histogram]_vars

\* l is <prefix> AR <digits> BY <middle> SRC with the marker at i, the
\* " bytes," at j, and the digits a decimal u64
AllocShape(l, i, j) ==
    /\ i + 1 < j
    /\ j < Len(l)
    /\ l[i] = "AR"
    /\ l[j] = "BY"
    /\ l[Len(l)] = "SRC"
    /\ \A k \in (i + 1)..(j - 1) : IsDigit(l[k])
    /\ ParseUInt(SubSeq(l, i + 1, j - 1), 4).ok

\* C4: the matcher returns B on every line of the allocation-request shape
\* and no-match on every line that does not end with the suffix.
C4_MatcherReturnsB ==
    parsed # Pending
      => /\ \A i, j \in 1..Len(line) :
              AllocShape(line, i, j)
                => parsed = Some(ParseUInt(SubSeq(line, i + 1, j - 1), 4).val)
         /\ (line = <<>> \/ line[Len(line)] # "SRC") => parsed = None

\* C5: on a file that opens, the extractor ends in TooShortLog, in
\* MissingDiagnosticsFlag or in the region size in MB, decided by the
\* fourth line alone.
C5_ExtractorOutcomes ==
    (file.openable /\ file_region_size # NoRegion)
      => IF Len(file.lines) < 4
         THEN file_region_size = Region("TooShortLog", 0)
         ELSE IF ~Contains(file.lines[4], "PASP")
         THEN file_region_size = Region("MissingDiagnosticsFlag", 0)
         ELSE /\ file_region_size.kind = "Ok"
              /\ file.lines[4] = Flags(ToDigits(4194304))
                   => file_region_size.mb = 4

\* C6: a file whose region size extraction ended in an error is reported
\* and left: nothing of it is scanned, the buckets and the distribution
\* stay as they are, and main's loop goes on.
C6_BadFileSkipped ==
    [][(pc = "extracted"
          /\ file_region_size.kind \in {"TooShortLog", "MissingDiagnosticsFlag"})
         => /\ stderr' = Append(stderr, file_region_size.kind)
            /\ pc' = "loop"
            /\ UNCHANGED <<nfiles, idx, allocations, allocs_histogram,
                           region_size_array, stdout, extracted>>]_vars

\* a log without the diagnostics flag was reported first, and the file
\* after it was scanned and counted
C6_Witness ==
    /\ stderr # <<>>
    /\ stderr[1] = "MissingDiagnosticsFlag"
    /\ idx = 2
    /\ Sum(region_size_array) > 0

\* C7: when a file cannot be opened the run stops there: the failure is
\* reported, nothing changes afterwards, and no report is printed.
C7_OpenFailureAborts ==
    /\ [](file_region_size.kind = "PanicOpen"
            => /\ pc = "panicked"
               /\ Last(stderr) = "PanicOpen"
               /\ ~Printed("table")
               /\ ~Printed("percentiles")
               /\ ~Printed("No humongous allocations"))
    /\ [][(~file.openable /\ file_region_size # NoRegion)
            => UNCHANGED vars]_vars

\* the second of two files failed to open after the first was counted
C7_Witness ==
    /\ file_region_size.kind = "PanicOpen"
    /\ idx = 2
    /\ Sum(region_size_array) > 0

\* C8: only a file that cannot be opened ends the run abnormally.
C8_OnlyOpenFailureIsFatal ==
    pc = "panicked" => file_region_size.kind = "PanicOpen"

\* C9: the buckets sum to the sizes taken so far that did not take the
\* warning arm, a size is counted in at most one bucket, and no bucket
\* ever decreases.
C9_BucketsTally ==
    /\ [](Sum(region_size_array) + Count(stderr, "WARN")
            = extracted - Len(allocations))
    /\ [][/\ \A b \in 1..6 : region_size_array'[b] >= region_size_array[b]
          /\ Sum(region_size_array') <= Sum(region_size_array) + 1]_vars

\* two files were scanned, sizes were counted and one was warned about
C9_Witness ==
    /\ idx = 2
    /\ pc = "loop"
    /\ Sum(region_size_array) >= 2
    /\ Count(stderr, "WARN") >= 1

\* C10: the report queries the distribution only when it holds a sample:
\* counted sizes are in the distribution, so the queries do not fail, and
\* with nothing counted only the no-allocations line is printed.
C10_ReportQueriesNonEmpty ==
    /\ Sum(region_size_array) > 0 => allocs_histogram # EmptyBag
    /\ Printed("table") => (pc = "done" /\ Last(stdout).t = "percentiles")
    /\ Printed("No humongous allocations")
         => (Sum(region_size_array) = 0 /\ ~Printed("percentiles"))
    /\ pc = "done"
         => (Printed("percentiles") \/ Printed("No humongous allocations"))

\* the percentiles were printed
C10_Witness ==
    /\ pc = "done"
    /\ Printed("percentiles")
    /\ Sum(region_size_array) > 0

====
